---- MODULE Spec2Model ----
(***************************************************************************)
(* Model of crankshaft-docker's Container (src/crankshaft-docker/src/      *)
(* container.rs): a handle on one Docker container and its `run` method,   *)
(* which attaches to the log stream, starts the container, notifies the    *)
(* caller, folds the log stream into stdout/stderr, determines the exit    *)
(* code from the wait stream or from inspect, and builds the Output.       *)
(*                                                                         *)
(* The Docker engine (bollard client) is the environment: each engine call *)
(* answers with any response its API allows, chosen by \E.                 *)
(***************************************************************************)
EXTENDS Integers, Sequences, FiniteSets, TLC

VARIABLES
    name,           \* Container.name
    attach_stdout,  \* Container.attach_stdout
    attach_stderr,  \* Container.attach_stderr
    pc,             \* position of run(): the await point it is suspended at
    stream,         \* the attached log stream: "none", "open", "ended", "failed"
    stdout,         \* fold accumulator / local `stdout`
    stderr,         \* fold accumulator / local `stderr`
    exit_code,      \* local `exit_code`: <<"None">> or <<"Some", code>>
    result,         \* what run() returned: <<"Pending">>, <<"Ok", output>>,
                    \* <<"Err", error>> or <<"Panic", message>>
    calls,          \* history: the engine calls issued, in order
    trace,          \* history: the observable events of the run, in order
    log,            \* history: the items the log stream has yielded, in order
    wait_item,      \* history: what wait_stream.next() yielded
    inspected,      \* history: what inspect_container answered
    engine_error,   \* history: the call the engine failed and its error
    container_state,\* engine: <<"created">>, <<"running">> or <<"exited", code>>
    wait_stream,    \* history: the items the wait subscription would deliver
    wait_rest,      \* the items of the wait subscription run has not taken
    invoked,        \* the upload_file / remove / force_remove invocation that
                    \* has returned and whose result the caller holds
    peer_pc,        \* a second handle on the same client, for another
                    \* container: the step its caller has reached
    peer_stdout,    \* the second handle's run: stdout accumulator
    peer_stderr,    \* the second handle's run: stderr accumulator
    peer_log,       \* history: the chunks its log stream has yielded
    peer_result,    \* what its run returned
    peer_calls      \* history: the engine calls it has issued

vars == <<name, attach_stdout, attach_stderr, pc, stream, stdout, stderr,
          exit_code, result, calls, trace, log, wait_item, inspected,
          engine_error, container_state, wait_stream, wait_rest, invoked,
          peer_pc, peer_stdout, peer_stderr, peer_log, peer_result, peer_calls>>

-----------------------------------------------------------------------------
(* Bounds of the model *)

\* the log stream yields at most this many chunks in one run
MaxChunks == 2

\* the paths given to upload_file have at most this many characters
MaxPathLen == 3

\* the contents given to upload_file have at most this many bytes
MaxContentLen == 2

-----------------------------------------------------------------------------
(* Values *)

\* container names a handle can be constructed with
Names == {"alpha", "beta"}

\* transport / engine errors other than a container-wait error
ErrorIds == {"e1", "e2"}

\* LogOutput variants (bollard::container::LogOutput)
Tags == {"StdOut", "StdErr", "StdIn", "Console"}

\* the byte payloads a log chunk can carry
Messages == {<<1>>, <<2>>}

LogOutputs == [tag : Tags, message : Messages]

\* all sequences over S of length at most n
RECURSIVE SeqsUpTo(_, _)
SeqsUpTo(S, n) ==
    IF n = 0 THEN {<<>>}
    ELSE LET shorter == SeqsUpTo(S, n - 1)
         IN  shorter \cup {Append(q, x) : q \in shorter, x \in S}

\* the `path: &str` arguments of upload_file, one character per element
Paths == SeqsUpTo({"/", "a"}, MaxPathLen)

\* the `contents: &[u8]` arguments of upload_file
Contents == SeqsUpTo({1, 2}, MaxContentLen)

\* An i64 is its 8 two's-complement bytes, least significant first, so that
\* narrowing and shifting are exact at the width the code has.
RECURSIVE LeBytes(_, _)
LeBytes(n, k) ==
    IF k = 0 THEN <<>> ELSE <<n % 256>> \o LeBytes(n \div 256, k - 1)

I64(n) == LeBytes(n, 8)

\* exit codes the engine may report (status_code / code / exit_code: i64)
ExitCodes ==
    { I64(0), I64(1), I64(2), I64(255), I64(256), I64(-1),
      <<0, 0, 0, 1, 0, 0, 0, 0>>,      \* 2^24
      <<0, 0, 0, 0, 1, 0, 0, 0>> }     \* 2^32

\* bollard::errors::Error
WaitError(code) == [variant |-> "DockerContainerWaitError", code |-> code, id |-> "-"]
OtherError(e)   == [variant |-> "Other", code |-> I64(0), id |-> e]

\* what the engine can answer to inspect_container: ContainerInspectResponse
\* with state: Option<ContainerState>, exit_code: Option<i64>
NoState    == [state |-> "None", exit_code |-> <<"None">>]
NoExitCode == [state |-> "Some", exit_code |-> <<"None">>]
Exited(code) == [state |-> "Some", exit_code |-> <<"Some", code>>]
InspectResponses == {NoState, NoExitCode} \cup {Exited(c) : c \in ExitCodes}

\* what wait_stream.next() can yield: None, or Some(Ok(response)), or
\* Some(Err(error))
WaitOk(code)  == <<"Some", "Ok", [variant |-> "ContainerWaitResponse", code |-> code, id |-> "-"]>>
WaitErr(err)  == <<"Some", "Err", err>>
WaitNone      == <<"None">>
WaitItems ==
    {WaitNone} \cup {WaitOk(c) : c \in ExitCodes}
               \cup {WaitErr(WaitError(c)) : c \in ExitCodes}
               \cup {WaitErr(OtherError(e)) : e \in ErrorIds}

\* the items the wait subscription can deliver after its first one
FurtherItems == {WaitOk(I64(1)), WaitErr(OtherError("e2"))}

\* the wait subscriptions the engine can deliver for a container in state cs:
\* an exit event (in either shape) only once the container has exited, and
\* with its code; an early end or a transport error at any time
WaitStreams(cs) ==
    LET first == {WaitErr(OtherError(e)) : e \in ErrorIds} \cup
                 (IF cs[1] = "exited"
                  THEN {WaitOk(cs[2]), WaitErr(WaitError(cs[2]))}
                  ELSE {})
    IN  {<<>>} \cup {<<i>> : i \in first}
               \cup {<<i, j>> : i \in first, j \in FurtherItems}

\* what inspect_container can answer for a container in state cs: the engine
\* reports exit code 0 for a container that has not exited
InspectAnswers(cs) ==
    {NoState, NoExitCode} \cup
    {Exited(IF cs[1] = "exited" THEN cs[2] ELSE I64(0))}

-----------------------------------------------------------------------------
(* Exit status: std::process::ExitStatus on a unix target *)

\* `code as i32`: keeps the low 32 bits
AsI32(code) == SubSeq(code, 1, 4)

\* `x << 8` on an i32: bits shifted out of the word are lost
Shl8(w) == <<0, w[1], w[2], w[3]>>

\* ExitStatus::from_raw((exit_code.unwrap() as i32) << 8)
UnixStatus(code) == Shl8(AsI32(code))

\* wait(2): WIFEXITED(s) is (s & 0x7f) == 0, WEXITSTATUS(s) is (s >> 8) & 0xff
WIFEXITED(status)   == status[1] % 128 = 0
WEXITSTATUS(status) == status[2]

\* ExitStatus::success(): the raw status is zero
StatusSuccess(status) == status = <<0, 0, 0, 0>>

\* the Output built at the end of run
MakeOutput(code, out, err) ==
    [status |-> UnixStatus(code), stdout |-> out, stderr |-> err]

-----------------------------------------------------------------------------
(* The archive built by upload_file *)

\* header.set_mode(0o644)
FileMode == 420

\* path.trim_start_matches("/")
RECURSIVE TrimStartSlashes(_)
TrimStartSlashes(path) ==
    IF path # <<>> /\ Head(path) = "/" THEN TrimStartSlashes(Tail(path))
    ELSE path

\* Path::components of a relative path: its non-empty segments between
\* slashes (cur is the segment being read, acc the segments read so far)
RECURSIVE SplitPath(_, _, _)
SplitPath(path, cur, acc) ==
    IF path = <<>>
    THEN IF cur = <<>> THEN acc ELSE Append(acc, cur)
    ELSE IF Head(path) = "/"
    THEN SplitPath(Tail(path), <<>>, IF cur = <<>> THEN acc ELSE Append(acc, cur))
    ELSE SplitPath(Tail(path), Append(cur, Head(path)), acc)

Components(path) == SplitPath(path, <<>>, <<>>)

\* the components written one after the other, a slash between two
RECURSIVE JoinComponents(_)
JoinComponents(comps) ==
    IF comps = <<>> THEN <<>>
    ELSE IF Len(comps) = 1 THEN comps[1]
    ELSE comps[1] \o <<"/">> \o JoinComponents(Tail(comps))

\* tar::Header::set_path, as unwrapped by upload_file: the name written to
\* the header, or the error for an absolute path and for a path with no
\* component (paths are within the 100 bytes of the header's name field)
HeaderSetPath(path) ==
    IF path # <<>> /\ Head(path) = "/"
    THEN <<"Err", "paths in archives must be relative">>
    ELSE IF Components(path) = <<>>
    THEN <<"Err", "paths in archives must have at least one component">>
    ELSE <<"Ok", JoinComponents(Components(path)) \o
                 (IF path[Len(path)] = "/" THEN <<"/">> ELSE <<>>)>>

\* the archive upload_file builds: <<"Ok", entries>>, or <<"Panic", message>>
\* when an unwrap meets an Err
BuildArchive(path, contents) ==
    LET trimmed == TrimStartSlashes(path)
        set     == HeaderSetPath(trimmed)
    IN  IF set[1] = "Err"
        THEN <<"Panic", set[2]>>
        ELSE <<"Ok", << [path       |-> set[2],
                         size       |-> Len(contents),
                         mode       |-> FileMode,
                         entry_type |-> "Regular",
                         data       |-> contents] >> >>

\* the engine calls of upload_file and remove_inner
UploadCall(archive) ==
    [op |-> "upload_to_container", name |-> name, opts |-> <<"/">>,
     body |-> archive]
RemoveCall(force) ==
    [op |-> "remove_container", name |-> name, opts |-> <<force>>]

\* no invocation of upload_file, remove or force_remove has returned
NoOp ==
    [fn |-> "none", path |-> <<>>, contents |-> <<>>, calls |-> <<>>,
     engine |-> <<"None">>, result |-> <<"None">>]

-----------------------------------------------------------------------------
(* The pure steps of run *)

\* FoldStep with the catch-all arm appending to stdout instead of discarding
FoldStep_OtherToStdout(acc, chunk) ==
    CASE chunk.tag = "StdErr" -> <<acc[1], acc[2] \o chunk.message>>
      [] OTHER                -> <<acc[1] \o chunk.message, acc[2]>>

\* the closure given to try_fold: one chunk folded into (stdout, stderr)
FoldStep(acc, chunk) ==
    CASE chunk.tag = "StdOut" -> <<acc[1] \o chunk.message, acc[2]>>
      [] chunk.tag = "StdErr" -> <<acc[1], acc[2] \o chunk.message>>
      [] OTHER                -> acc

\* WaitMatch without the DockerContainerWaitError arm: every Err returns
WaitMatch_OkOnly(res) ==
    CASE res[2] = "Ok" -> <<"Set", <<"Some", res[3].code>>>>
      [] OTHER          -> <<"Return", res[3]>>

\* WaitMatch with the last arm swallowing the error (`Err(_) => {}`)
WaitMatch_IgnoreOther(res) ==
    CASE res[2] = "Ok" -> <<"Set", <<"Some", res[3].code>>>>
      [] res[2] = "Err" /\ res[3].variant = "DockerContainerWaitError"
                        -> <<"Set", <<"Some", res[3].code>>>>
      [] OTHER          -> <<"Set", <<"None">>>>

\* the match on the first item of the wait stream: <<"Set", exit_code>> when
\* the match falls through with exit_code assigned, <<"Return", error>> when
\* run returns early
WaitMatch(res) ==
    CASE res[2] = "Ok" -> <<"Set", <<"Some", res[3].code>>>>
      [] res[2] = "Err" /\ res[3].variant = "DockerContainerWaitError"
                        -> <<"Set", <<"Some", res[3].code>>>>
      [] OTHER          -> <<"Return", res[3]>>

\* WaitNext draining the subscription and keeping its last item
WaitNext_Last(ws) ==
    IF ws = <<>> THEN <<WaitNone, <<>>>> ELSE <<ws[Len(ws)], <<>>>>

\* wait_stream.next(): the item taken, None at the end of the stream, and
\* the items left in the subscription
WaitNext(ws) ==
    IF ws = <<>> THEN <<WaitNone, <<>>>> ELSE <<Head(ws), Tail(ws)>>

\* NeedsInspect with the guard dropped: inspect is called unconditionally
NeedsInspect_Always(code) == TRUE

\* `if exit_code.is_none()`: the inspect fallback is taken
NeedsInspect(code) == code = <<"None">>

\* InspectExitCode with unwrap_or_default() in place of the two expects
InspectExitCode_DefaultZero(container) ==
    IF container.state = "None" \/ container.exit_code = <<"None">>
    THEN <<"Code", I64(0)>>
    ELSE <<"Code", container.exit_code[2]>>

\* container.state.expect(..).exit_code.expect(..)
InspectExitCode(container) ==
    IF container.state = "None"
    THEN <<"Panic", "Docker reported a container without a state">>
    ELSE IF container.exit_code = <<"None">>
    THEN <<"Panic", "Docker reported a finished contained without an exit code">>
    ELSE <<"Code", container.exit_code[2]>>

\* AttachCall asking for both streams whatever the handle's flags
AttachCall_BothStreams ==
    [op |-> "attach_container", name |-> name, opts |-> <<TRUE, TRUE, TRUE>>]

\* the engine calls, as run issues them
AttachCall  == [op |-> "attach_container", name |-> name,
                opts |-> <<attach_stdout, attach_stderr, TRUE>>]
StartCall   == [op |-> "start_container", name |-> name, opts |-> <<>>]
WaitCall    == [op |-> "wait_container", name |-> name, opts |-> <<>>]
InspectCall == [op |-> "inspect_container", name |-> name, opts |-> <<>>]

-----------------------------------------------------------------------------
(* The state machine *)

handle == <<name, attach_stdout, attach_stderr>>

\* the second handle: its locals and the calls it has issued
peer == <<peer_pc, peer_stdout, peer_stderr, peer_log, peer_result, peer_calls>>

\* Container::new, and run about to be called on the handle
Init ==
    /\ name \in Names
    /\ attach_stdout \in BOOLEAN
    /\ attach_stderr \in BOOLEAN
    /\ pc = "attach"
    /\ stream = "none"
    /\ stdout = <<>>
    /\ stderr = <<>>
    /\ exit_code = <<"None">>
    /\ result = <<"Pending">>
    /\ calls = <<>>
    /\ trace = <<>>
    /\ log = <<>>
    /\ wait_item = <<"Unpolled">>
    /\ inspected = <<"None">>
    /\ engine_error = <<"None">>
    /\ container_state = <<"created">>
    /\ wait_stream = <<>>
    /\ wait_rest = <<>>
    /\ invoked = NoOp
    /\ peer_pc = "upload"
    /\ peer_stdout = <<>>
    /\ peer_stderr = <<>>
    /\ peer_log = <<>>
    /\ peer_result = <<"Pending">>
    /\ peer_calls = <<>>

\* run returns Err(error)
ReturnErr(error) ==
    /\ result' = <<"Err", error>>
    /\ pc' = "done"

\* run returns Ok(output), built from the exit code and the two buffers
ReturnOk(code) ==
    /\ result' = <<"Ok", MakeOutput(code, stdout, stderr)>>
    /\ pc' = "done"

\* attach_container(..).await succeeds: `stream` is the attached output
AttachOk ==
    /\ pc = "attach"
    /\ calls' = Append(calls, AttachCall)
    /\ stream' = "open"
    /\ trace' = trace \o <<"attach", "attach_ok">>
    /\ pc' = "start"
    /\ UNCHANGED <<handle, invoked, peer, container_state, wait_stream,
                   wait_rest, stdout, stderr, exit_code, result, log, wait_item,
                   inspected, engine_error>>

\* AttachErr with the error dropped instead of returned: run goes on to start
AttachErr_Ignored ==
    /\ pc = "attach"
    /\ calls' = Append(calls, AttachCall)
    /\ \E e \in ErrorIds :
       engine_error' = <<"attach_container", OtherError(e)>>
    /\ trace' = trace \o <<"attach", "attach_err">>
    /\ pc' = "start"
    /\ UNCHANGED <<handle, invoked, peer, container_state, wait_stream,
                   wait_rest, stream, stdout, stderr, exit_code, result, log,
                   wait_item, inspected>>

\* attach_container(..).await fails: `.map_err(Error::Docker)?` returns
AttachErr ==
    /\ pc = "attach"
    /\ calls' = Append(calls, AttachCall)
    /\ \E e \in ErrorIds :
       /\ engine_error' = <<"attach_container", OtherError(e)>>
       /\ ReturnErr(OtherError(e))
    /\ trace' = trace \o <<"attach", "attach_err", "return_err">>
    /\ UNCHANGED <<handle, invoked, peer, container_state, wait_stream,
                   wait_rest, stream, stdout, stderr, exit_code, log, wait_item,
                   inspected>>

\* start_container(..).await succeeds
StartOk ==
    /\ pc = "start"
    /\ calls' = Append(calls, StartCall)
    /\ trace' = trace \o <<"start", "start_ok">>
    /\ pc' = "started"
    /\ container_state' = <<"running">>
    /\ UNCHANGED <<handle, invoked, peer, wait_stream, wait_rest, stream, stdout,
                   stderr, exit_code, result, log, wait_item, inspected,
                   engine_error>>

\* StartErr with the error dropped instead of returned: run goes on to the
\* callback and the collection
StartErr_Ignored ==
    /\ pc = "start"
    /\ calls' = Append(calls, StartCall)
    /\ \E e \in ErrorIds :
       engine_error' = <<"start_container", OtherError(e)>>
    /\ trace' = trace \o <<"start", "start_err">>
    /\ pc' = "started"
    /\ UNCHANGED <<handle, invoked, peer, container_state, wait_stream,
                   wait_rest, stream, stdout, stderr, exit_code, result, log,
                   wait_item, inspected>>

\* start_container(..).await fails: `.map_err(Error::Docker)?` returns
StartErr ==
    /\ pc = "start"
    /\ calls' = Append(calls, StartCall)
    /\ \E e \in ErrorIds :
       /\ engine_error' = <<"start_container", OtherError(e)>>
       /\ ReturnErr(OtherError(e))
    /\ trace' = trace \o <<"start", "start_err", "return_err">>
    /\ UNCHANGED <<handle, invoked, peer, container_state, wait_stream,
                   wait_rest, stream, stdout, stderr, exit_code, log, wait_item,
                   inspected>>

\* Started with the call to the callback left out
Started_Skipped ==
    /\ pc = "started"
    /\ pc' = "collect"
    /\ UNCHANGED <<handle, invoked, peer, container_state, wait_stream,
                   wait_rest, stream, stdout, stderr, exit_code, result, calls,
                   trace, log, wait_item, inspected, engine_error>>

\* started()
Started ==
    /\ pc = "started"
    /\ trace' = Append(trace, "started")
    /\ pc' = "collect"
    /\ UNCHANGED <<handle, invoked, peer, container_state, wait_stream,
                   wait_rest, stream, stdout, stderr, exit_code, result, calls,
                   log, wait_item, inspected, engine_error>>

\* CollectChunk reading one chunk with next() instead of folding to the end:
\* run goes on to wait while the stream is still open
CollectChunk_ThenWait ==
    /\ pc = "collect"
    /\ Len(log) < MaxChunks
    /\ \E chunk \in LogOutputs :
       /\ log' = Append(log, <<"Ok", chunk>>)
       /\ stdout' = FoldStep(<<stdout, stderr>>, chunk)[1]
       /\ stderr' = FoldStep(<<stdout, stderr>>, chunk)[2]
    /\ trace' = Append(trace, "chunk")
    /\ pc' = "wait"
    /\ UNCHANGED <<handle, invoked, peer, container_state, wait_stream,
                   wait_rest, stream, exit_code, result, calls, wait_item,
                   inspected, engine_error>>

\* try_fold: the stream yields Some(Ok(chunk)), the closure folds it
CollectChunk ==
    /\ pc = "collect"
    /\ Len(log) < MaxChunks
    /\ \E chunk \in LogOutputs :
       /\ log' = Append(log, <<"Ok", chunk>>)
       /\ stdout' = FoldStep(<<stdout, stderr>>, chunk)[1]
       /\ stderr' = FoldStep(<<stdout, stderr>>, chunk)[2]
    /\ trace' = Append(trace, "chunk")
    /\ UNCHANGED <<handle, invoked, peer, container_state, wait_stream,
                   wait_rest, pc, stream, exit_code, result, calls, wait_item,
                   inspected, engine_error>>

\* CollectErr with the error taken for the end of the stream: run keeps the
\* bytes collected so far and goes on to wait
CollectErr_AsEnd ==
    /\ pc = "collect"
    /\ \E e \in ErrorIds :
       /\ log' = Append(log, <<"Err", OtherError(e)>>)
       /\ engine_error' = <<"attach_container.output", OtherError(e)>>
    /\ stream' = "failed"
    /\ trace' = Append(trace, "log_err")
    /\ pc' = "wait"
    /\ UNCHANGED <<handle, invoked, peer, container_state, wait_stream,
                   wait_rest, stdout, stderr, exit_code, result, calls,
                   wait_item, inspected>>

\* try_fold: the stream yields Some(Err(e)); the fold stops with the error,
\* the accumulator is dropped and `.map_err(Error::Docker)?` returns
CollectErr ==
    /\ pc = "collect"
    /\ \E e \in ErrorIds :
       /\ log' = Append(log, <<"Err", OtherError(e)>>)
       /\ engine_error' = <<"attach_container.output", OtherError(e)>>
       /\ ReturnErr(OtherError(e))
    /\ stream' = "failed"
    /\ trace' = trace \o <<"log_err", "return_err">>
    /\ UNCHANGED <<handle, invoked, peer, container_state, wait_stream,
                   wait_rest, stdout, stderr, exit_code, calls, wait_item,
                   inspected>>

\* CollectEnd with a deadline on the collection: run goes on to wait while
\* the stream is still open
CollectEnd_Timeout ==
    /\ pc = "collect"
    /\ trace' = Append(trace, "log_timeout")
    /\ pc' = "wait"
    /\ UNCHANGED <<handle, invoked, peer, container_state, wait_stream,
                   wait_rest, stream, stdout, stderr, exit_code, result, calls,
                   log, wait_item, inspected, engine_error>>

\* try_fold: the stream yields None; the fold completes with the accumulator
CollectEnd ==
    /\ pc = "collect"
    /\ stream' = "ended"
    /\ trace' = Append(trace, "log_end")
    /\ pc' = "wait"
    /\ UNCHANGED <<handle, invoked, peer, container_state, wait_stream,
                   wait_rest, stdout, stderr, exit_code, result, calls, log,
                   wait_item, inspected, engine_error>>

\* engine: the running container exits with some code
ContainerExit ==
    /\ container_state = <<"running">>
    /\ \E code \in ExitCodes : container_state' = <<"exited", code>>
    /\ UNCHANGED <<handle, invoked, peer, pc, stream, stdout, stderr, exit_code,
                   result, calls, trace, log, wait_item, inspected, engine_error,
                   wait_stream, wait_rest>>

\* wait_container(..), wait_stream.next().await, the match on its item and,
\* when exit_code is set, the construction of the Output
Wait ==
    /\ pc = "wait"
    /\ calls' = Append(calls, WaitCall)
    /\ \E ws \in WaitStreams(container_state) :
       /\ wait_stream' = ws
       /\ wait_item' = WaitNext(ws)[1]
       /\ wait_rest' = WaitNext(ws)[2]
       /\ LET item == WaitNext(ws)[1]
              m == IF item = WaitNone THEN <<"Set", exit_code>>
                                      ELSE WaitMatch(item)
          IN  IF m[1] = "Return"
              THEN /\ trace' = trace \o <<"wait", "wait_item", "return_err">>
                   /\ ReturnErr(m[2])
                   /\ UNCHANGED exit_code
              ELSE /\ exit_code' = m[2]
                   /\ IF NeedsInspect(m[2])
                      THEN /\ trace' = trace \o
                                <<"wait", IF item = WaitNone THEN "wait_none"
                                                             ELSE "wait_item">>
                           /\ pc' = "inspect"
                           /\ UNCHANGED result
                      ELSE /\ trace' = trace \o <<"wait", "wait_item", "return_ok">>
                           /\ ReturnOk(m[2][2])
    /\ UNCHANGED <<handle, invoked, peer, container_state, stream, stdout,
                   stderr, log, inspected, engine_error>>

\* inspect_container(..).await fails: `.map_err(Error::Docker)?` returns
InspectErr ==
    /\ pc = "inspect"
    /\ calls' = Append(calls, InspectCall)
    /\ \E e \in ErrorIds :
       /\ inspected' = <<"Err", OtherError(e)>>
       /\ engine_error' = <<"inspect_container", OtherError(e)>>
       /\ ReturnErr(OtherError(e))
    /\ trace' = trace \o <<"inspect", "inspect_err", "return_err">>
    /\ UNCHANGED <<handle, invoked, peer, container_state, wait_stream,
                   wait_rest, stream, stdout, stderr, exit_code, log, wait_item>>

\* inspect_container(..).await succeeds: the two expects, then the Output
InspectOk ==
    /\ pc = "inspect"
    /\ calls' = Append(calls, InspectCall)
    /\ \E container \in InspectAnswers(container_state) :
       /\ inspected' = <<"Ok", container>>
       /\ LET r == InspectExitCode(container)
          IN  IF r[1] = "Panic"
              THEN /\ trace' = trace \o <<"inspect", "inspect_ok", "panic">>
                   /\ result' = r
                   /\ pc' = "done"
                   /\ UNCHANGED exit_code
              ELSE /\ exit_code' = <<"Some", r[2]>>
                   /\ trace' = trace \o <<"inspect", "inspect_ok", "return_ok">>
                   /\ ReturnOk(r[2])
    /\ UNCHANGED <<handle, invoked, peer, container_state, wait_stream,
                   wait_rest, stream, stdout, stderr, log, wait_item,
                   engine_error>>

\* the variables of a run invocation and of the engine's container
run_vars == <<pc, stream, stdout, stderr, exit_code, result, calls, trace, log,
              wait_item, inspected, engine_error, container_state,
              wait_stream, wait_rest>>

\* upload_file(path, contents): the archive is built, sent with one
\* upload_to_container call, and the engine's answer is returned
UploadFile ==
    /\ \E path \in Paths, contents \in Contents :
       LET tar == BuildArchive(path, contents)
           inv == [fn |-> "upload_file", path |-> path, contents |-> contents,
                   calls |-> <<>>, engine |-> <<"None">>, result |-> <<"None">>]
       IN  IF tar[1] = "Panic"
           THEN invoked' = [inv EXCEPT !.result = tar]
           ELSE \/ invoked' = [inv EXCEPT !.calls = <<UploadCall(tar[2])>>,
                                     !.engine = <<"Ok">>,
                                     !.result = <<"Ok">>]
                \/ \E e \in ErrorIds :
                   invoked' = [inv EXCEPT !.calls = <<UploadCall(tar[2])>>,
                                     !.engine = <<"Err", OtherError(e)>>,
                                     !.result = <<"Err", OtherError(e)>>]
    /\ UNCHANGED <<handle, run_vars, peer>>

\* remove_inner(force): one remove_container call, its error returned by `?`
RemoveInner(fn, force) ==
    /\ LET inv == [fn |-> fn, path |-> <<>>, contents |-> <<>>,
                   calls |-> <<RemoveCall(force)>>, engine |-> <<"None">>,
                   result |-> <<"None">>]
       IN  \/ invoked' = [inv EXCEPT !.engine = <<"Ok">>, !.result = <<"Ok">>]
           \/ \E e \in ErrorIds :
              invoked' = [inv EXCEPT !.engine = <<"Err", OtherError(e)>>,
                                !.result = <<"Err", OtherError(e)>>]
    /\ UNCHANGED <<handle, run_vars, peer>>

\* remove() passing force = true
Remove_Forced == RemoveInner("remove", TRUE)

\* remove()
Remove == RemoveInner("remove", FALSE)

\* force_remove()
ForceRemove == RemoveInner("force_remove", TRUE)

\* the caller takes the result of upload_file, remove or force_remove
OpReturn ==
    /\ invoked # NoOp
    /\ invoked' = NoOp
    /\ UNCHANGED <<handle, run_vars, peer>>

\* the caller takes the result of run; the handle can be run again, with
\* fresh locals, against the container as the engine has it
RunReturn ==
    /\ pc = "done"
    /\ pc' = "attach"
    /\ stream' = "none"
    /\ stdout' = <<>>
    /\ stderr' = <<>>
    /\ exit_code' = <<"None">>
    /\ result' = <<"Pending">>
    /\ calls' = <<>>
    /\ trace' = <<>>
    /\ log' = <<>>
    /\ wait_item' = <<"Unpolled">>
    /\ inspected' = <<"None">>
    /\ engine_error' = <<"None">>
    /\ wait_stream' = <<>>
    /\ wait_rest' = <<>>
    /\ UNCHANGED <<handle, invoked, peer, container_state>>

Next ==
    \/ AttachOk
    \/ AttachErr
    \/ StartOk
    \/ StartErr
    \/ Started
    \/ CollectChunk
    \/ CollectErr
    \/ CollectEnd
    \/ ContainerExit
    \/ Wait
    \/ InspectErr
    \/ InspectOk

Spec == Init /\ [][Next]_vars

-----------------------------------------------------------------------------
(* A second handle, on the same client and for another container: its caller
   uploads a file, runs the container and removes it. Its steps are those of
   Container above, with the engine answering without error. *)

\* the name of the second handle's container
PeerName == CHOOSE n \in Names : n # name

\* the chunks the second container's log stream can yield
PeerChunks == {[tag |-> "StdOut", message |-> <<2>>]}

\* the exit code the second container's wait subscription yields
PeerExitCode == I64(1)

PeerCall(fn, opts) == [op |-> fn, name |-> PeerName, opts |-> opts]

\* a step of the second handle that issues one engine call and moves on
PeerStep(from, to, fn, opts) ==
    /\ peer_pc = from
    /\ peer_pc' = to
    /\ peer_calls' = Append(peer_calls, PeerCall(fn, opts))

\* upload_file("a", contents)
PeerUpload ==
    /\ PeerStep("upload", "attach", "upload_to_container", <<"/">>)
    /\ UNCHANGED <<handle, run_vars, invoked, peer_stdout, peer_stderr,
                   peer_log, peer_result>>

\* run: attach_container succeeds
PeerAttach ==
    /\ PeerStep("attach", "start", "attach_container", <<TRUE, TRUE, TRUE>>)
    /\ UNCHANGED <<handle, run_vars, invoked, peer_stdout, peer_stderr,
                   peer_log, peer_result>>

\* run: start_container succeeds and started() is called
PeerStart ==
    /\ PeerStep("start", "collect", "start_container", <<>>)
    /\ UNCHANGED <<handle, run_vars, invoked, peer_stdout, peer_stderr,
                   peer_log, peer_result>>

\* PeerCollectChunk with the two buffers held in state shared by the handles
\* of one client instead of in locals of run
PeerCollectChunk_SharedBuffers ==
    /\ peer_pc = "collect"
    /\ peer_log = <<>>
    /\ \E chunk \in PeerChunks :
       /\ peer_log' = <<<<"Ok", chunk>>>>
       /\ stdout' = FoldStep(<<stdout, stderr>>, chunk)[1]
       /\ stderr' = FoldStep(<<stdout, stderr>>, chunk)[2]
       /\ peer_stdout' = stdout'
       /\ peer_stderr' = stderr'
    /\ UNCHANGED <<handle, pc, stream, exit_code, result, calls, trace, log,
                   wait_item, inspected, engine_error, container_state,
                   wait_stream, wait_rest, invoked, peer_pc, peer_result,
                   peer_calls>>

\* run: try_fold folds a chunk of the second container's log stream
PeerCollectChunk ==
    /\ peer_pc = "collect"
    /\ peer_log = <<>>
    /\ \E chunk \in PeerChunks :
       /\ peer_log' = <<<<"Ok", chunk>>>>
       /\ peer_stdout' = FoldStep(<<peer_stdout, peer_stderr>>, chunk)[1]
       /\ peer_stderr' = FoldStep(<<peer_stdout, peer_stderr>>, chunk)[2]
    /\ UNCHANGED <<handle, run_vars, invoked, peer_pc, peer_result,
                   peer_calls>>

\* run: the log stream ends, wait_container yields the exit code, Ok(output)
PeerCollectEndWait ==
    /\ PeerStep("collect", "done", "wait_container", <<>>)
    /\ peer_result' =
          <<"Ok", MakeOutput(PeerExitCode, peer_stdout, peer_stderr)>>
    /\ UNCHANGED <<handle, run_vars, invoked, peer_stdout, peer_stderr,
                   peer_log>>

\* remove()
PeerRemove ==
    /\ PeerStep("done", "removed", "remove_container", <<FALSE>>)
    /\ UNCHANGED <<handle, run_vars, invoked, peer_stdout, peer_stderr,
                   peer_log, peer_result>>

PeerNext ==
    \/ PeerUpload
    \/ PeerAttach
    \/ PeerStart
    \/ PeerCollectChunk
    \/ PeerCollectEndWait
    \/ PeerRemove

\* one handle, as constructed by Container::new("alpha", true, true)
InitAlpha ==
    /\ Init
    /\ name = "alpha"
    /\ attach_stdout
    /\ attach_stderr

\* run with the log stream eventually ending or failing and every engine call
\* and the callback eventually returning
LiveSpec ==
    /\ InitAlpha
    /\ [][Next]_vars
    /\ WF_vars(AttachOk \/ AttachErr)
    /\ WF_vars(StartOk \/ StartErr)
    /\ WF_vars(Started)
    /\ WF_vars(CollectEnd \/ CollectErr)
    /\ WF_vars(Wait)
    /\ WF_vars(InspectOk \/ InspectErr)

\* two handles of one client, for two containers, their steps interleaved
NextTwo ==
    \/ Next
    \/ PeerNext

SpecTwo == InitAlpha /\ [][NextTwo]_vars

\* a caller that invokes upload_file, run, remove and force_remove on the
\* handle in any order, one invocation after the other: Idle is the handle
\* with no invocation in progress and no result left to take
Idle == pc = "attach" /\ invoked = NoOp

NextHandle ==
    \/ invoked = NoOp /\ Next
    \/ Idle /\ UploadFile
    \/ Idle /\ Remove
    \/ Idle /\ ForceRemove
    \/ OpReturn
    \/ RunReturn

SpecHandle == Init /\ [][NextHandle]_vars

-----------------------------------------------------------------------------
(* Properties *)

\* the number of occurrences of x in seq
Count(seq, x) == Cardinality({i \in DOMAIN seq : seq[i] = x})

\* every occurrence of event b in the trace has an event a before it
Precedes(a, b) ==
    \A j \in DOMAIN trace :
        trace[j] = b => \E i \in 1..(j - 1) : trace[i] = a

\* the engine call op has been issued
Issued(op) == \E i \in DOMAIN calls : calls[i].op = op

\* the bytes of the chunks of the log tagged `tag`, in arrival order
RECURSIVE ConcatTagged(_, _)
ConcatTagged(items, tag) ==
    IF items = <<>> THEN <<>>
    ELSE LET item == Head(items)
             rest == ConcatTagged(Tail(items), tag)
         IN  IF item[1] = "Ok" /\ item[2].tag = tag
             THEN item[2].message \o rest
             ELSE rest

\* the Output of a run that observed exit code `code` and the current log
ExpectedOutput(code) ==
    [status |-> UnixStatus(code),
     stdout |-> ConcatTagged(log, "StdOut"),
     stderr |-> ConcatTagged(log, "StdErr")]

\* C1: in every successful run the started-callback is invoked exactly once,
\* after start_container has returned success, before any chunk of the log
\* stream is consumed and before run returns.
C1_StartedOnceBeforeOutput ==
    result[1] = "Ok" =>
        /\ Count(trace, "started") = 1
        /\ Precedes("start_ok", "started")
        /\ Precedes("started", "chunk")
        /\ Precedes("started", "log_end")
        /\ Precedes("started", "return_ok")

C1_Witness ==
    /\ result[1] = "Ok"
    /\ Len(log) >= 1
    /\ Count(trace, "started") = 1

\* C2: start_container is issued only after attach_container has succeeded;
\* if attach fails, run returns that error and issues no start, no callback,
\* no wait and no inspect.
C2_AttachBeforeStart ==
    /\ Precedes("attach_ok", "start")
    /\ Issued("start_container") =>
          /\ calls[1].op = "attach_container"
          /\ stream # "none"
    /\ engine_error[1] = "attach_container" =>
          /\ result = <<"Err", engine_error[2]>>
          /\ calls = <<AttachCall>>
          /\ Count(trace, "started") = 0

C2_Witness ==
    /\ engine_error[1] = "attach_container"
    /\ pc = "done"

\* C3: when the log stream ends without error, the stdout buffer returned is
\* the concatenation, in arrival order, of the StdOut chunks, the stderr
\* buffer that of the StdErr chunks, and other chunks are in neither.
C3_BuffersByTag ==
    result[1] = "Ok" =>
        /\ result[2].stdout = ConcatTagged(log, "StdOut")
        /\ result[2].stderr = ConcatTagged(log, "StdErr")

C3_Witness ==
    /\ result[1] = "Ok"
    /\ Len(log) = 2
    /\ log[1][2].tag = "StdOut"
    /\ log[2][2].tag = "StdOut"
    /\ log[1][2].message # log[2][2].message
    /\ result[2].stdout = log[1][2].message \o log[2][2].message

\* the first item of the wait stream carries exit code `code`, as a normal
\* completion event or as a wrapped container-wait error
WaitYieldedCode ==
    /\ Len(wait_item) = 3
    /\ \/ wait_item[2] = "Ok"
       \/ wait_item[3].variant = "DockerContainerWaitError"

\* C4: a run whose wait stream first yields Ok(status_code N) and a run whose
\* wait stream first yields Err(DockerContainerWaitError { code N }) return
\* the same result and issue the same engine calls, inspect not among them:
\* result and calls are one function of N, the log and the handle, whatever
\* the shape of the item.
C4_WaitShapesAlike ==
    WaitYieldedCode =>
        /\ result = <<"Ok", ExpectedOutput(wait_item[3].code)>>
        /\ calls = <<AttachCall, StartCall, WaitCall>>

C4_Witness ==
    /\ wait_item = WaitErr(WaitError(I64(2)))
    /\ result[1] = "Ok"
    /\ Len(log) >= 1

\* C5: if the wait stream ends without an item, run issues exactly one
\* inspect call and, when it reports a state with exit code N, returns an
\* exit status built from N; and inspect is issued only in that case.
C5_InspectFallback ==
    /\ (wait_item = WaitNone /\ pc = "done") =>
          Cardinality({i \in DOMAIN calls : calls[i].op = "inspect_container"}) = 1
    /\ (/\ wait_item = WaitNone
        /\ inspected[1] = "Ok"
        /\ inspected[2].state = "Some"
        /\ inspected[2].exit_code[1] = "Some") =>
          result = <<"Ok", ExpectedOutput(inspected[2].exit_code[2])>>
    /\ (Issued("inspect_container") \/ pc = "inspect") => wait_item = WaitNone

C5_Witness ==
    /\ wait_item = WaitNone
    /\ inspected = <<"Ok", Exited(I64(2))>>
    /\ result[1] = "Ok"

\* C6: if inspect reports a container with no state, or a state with no exit
\* code, run ends in a panic: it returns no result, exit code 0 least of all.
C6_NoDefaultExitCode ==
    (inspected = <<"Ok", NoState>> \/ inspected = <<"Ok", NoExitCode>>) =>
        /\ result[1] = "Panic"
        /\ exit_code = <<"None">>

C6_Witness ==
    /\ inspected = <<"Ok", NoExitCode>>
    /\ result[1] = "Panic"
    /\ pc = "done"

\* C7: for every exit code N the engine reports, the status built by run
\* ((N as i32) << 8) decodes back to N by WIFEXITED / WEXITSTATUS, and N = 0
\* yields a success-shaped status.
C7_StatusDecodesToCode ==
    result[1] = "Ok" =>
        /\ WIFEXITED(result[2].status)
        /\ I64(WEXITSTATUS(result[2].status)) = exit_code[2]
        /\ exit_code[2] = I64(0) => StatusSuccess(result[2].status)

\* C8: if the log stream yields a transport error after any number of chunks,
\* run returns that error, none of the bytes collected, and issues no wait
\* and no inspect call.
C8_LogErrorAborts ==
    (\E i \in DOMAIN log : log[i][1] = "Err") =>
        /\ result = <<"Err", log[Len(log)][2]>>
        /\ ~Issued("wait_container")
        /\ ~Issued("inspect_container")

C8_Witness ==
    /\ Len(log) = 2
    /\ log[1][1] = "Ok"
    /\ log[1][2].tag = "StdOut"
    /\ log[2][1] = "Err"
    /\ stdout # <<>>
    /\ pc = "done"

\* C9: the wait subscription is opened only after the log stream has been
\* consumed to its end; no wait or inspect call is issued while the log
\* stream is still open.
C9_WaitAfterCollect ==
    /\ (Issued("wait_container") \/ Issued("inspect_container")) =>
          stream = "ended"
    /\ Precedes("log_end", "wait")
    /\ Precedes("log_end", "inspect")

C9_Witness ==
    /\ Issued("wait_container")
    /\ Len(log) = 2

\* C10: if the first item of the wait stream is an error other than a
\* container-wait error, run returns that error at once: no inspect call, no
\* exit status, no captured bytes.
C10_OtherWaitErrorReturns ==
    (/\ Len(wait_item) = 3
     /\ wait_item[2] = "Err"
     /\ wait_item[3].variant = "Other") =>
        /\ result = <<"Err", wait_item[3]>>
        /\ exit_code = <<"None">>
        /\ ~Issued("inspect_container")

C10_Witness ==
    /\ wait_item = WaitErr(OtherError("e1"))
    /\ Len(log) >= 1
    /\ pc = "done"

\* C13: if start_container fails, run returns that error, the callback is
\* never invoked, no chunk of the log stream is consumed and no wait or
\* inspect call is issued; in every run the callback is invoked at most once.
C13_StartErrorAborts ==
    /\ engine_error[1] = "start_container" =>
          /\ result = <<"Err", engine_error[2]>>
          /\ Count(trace, "started") = 0
          /\ log = <<>>
          /\ Count(trace, "chunk") = 0
          /\ calls = <<AttachCall, StartCall>>
    /\ Count(trace, "started") <= 1

C13_Witness ==
    /\ engine_error[1] = "start_container"
    /\ stream = "open"
    /\ pc = "done"

\* C15: the exit code run uses is that of the first item of the wait
\* subscription: at most one item is taken, the items after it stay in the
\* subscription and do not change the result.
C15_FirstWaitItemDecides ==
    /\ Len(wait_stream) - Len(wait_rest) <= 1
    /\ Cardinality({i \in DOMAIN calls : calls[i].op = "wait_container"}) <= 1
    /\ wait_stream # <<>> =>
          /\ wait_item = wait_stream[1]
          /\ wait_rest = Tail(wait_stream)
          /\ LET first == wait_stream[1]
             IN  IF \/ first[2] = "Ok"
                    \/ first[3].variant = "DockerContainerWaitError"
                 THEN result = <<"Ok", ExpectedOutput(first[3].code)>>
                 ELSE result = <<"Err", first[3]>>

C15_Witness ==
    /\ Len(wait_stream) = 2
    /\ wait_stream[1] = WaitOk(I64(0))
    /\ wait_stream[2] = WaitOk(I64(1))
    /\ wait_rest = <<WaitOk(I64(1))>>
    /\ result[1] = "Ok"
    /\ result[2].status = UnixStatus(I64(0))

\* C19: whenever run returns successfully, the container has exited at the
\* engine and the exit code run returns is the code of that exit, on the
\* event path and on the inspect path alike.
C19_ReturnsCodeOfExit ==
    result[1] = "Ok" => container_state = <<"exited", exit_code[2]>>

\* the value remove_inner returns is the engine's answer to its one call
ReturnsEngineAnswer ==
    /\ invoked.result = <<"Ok">> <=> invoked.engine = <<"Ok">>
    /\ invoked.engine[1] = "Err" => invoked.result = invoked.engine

\* C11: remove() issues exactly one remove_container call with force = false
\* and force_remove() exactly one with force = true, each for the handle's
\* name; each returns Ok iff the engine call succeeds and otherwise the
\* engine's error.
C11_RemoveOnce ==
    /\ invoked.fn = "remove" =>
          /\ invoked.calls = <<[op |-> "remove_container", name |-> name,
                                opts |-> <<FALSE>>]>>
          /\ ReturnsEngineAnswer
    /\ invoked.fn = "force_remove" =>
          /\ invoked.calls = <<[op |-> "remove_container", name |-> name,
                                opts |-> <<TRUE>>]>>
          /\ ReturnsEngineAnswer

C11_Witness ==
    /\ invoked.fn = "remove"
    /\ invoked.result = <<"Err", OtherError("e1")>>
    /\ container_state[1] = "exited"

\* C12: for all non-empty contents and all paths p, upload_file(p, contents)
\* sends, with extraction root "/", an archive of exactly one regular-file
\* entry whose path is p without its leading slashes, whose mode is 0644,
\* whose size is len(contents) and whose body is contents.
C12_UploadsOneEntry ==
    (invoked.fn = "upload_file" /\ invoked.contents # <<>>) =>
        /\ Len(invoked.calls) = 1
        /\ invoked.calls[1].op = "upload_to_container"
        /\ invoked.calls[1].name = name
        /\ invoked.calls[1].opts = <<"/">>
        /\ invoked.calls[1].body =
              << [path       |-> TrimStartSlashes(invoked.path),
                  size       |-> Len(invoked.contents),
                  mode       |-> FileMode,
                  entry_type |-> "Regular",
                  data       |-> invoked.contents] >>

\* C14: for every path (the empty one and one made of slashes included) and
\* every contents, upload_file ends in Ok or in the engine's error from the
\* transmission; the construction of the archive never aborts it.
C14_UploadNeverAborts ==
    invoked.fn = "upload_file" =>
        /\ invoked.result[1] \in {"Ok", "Err"}
        /\ Len(invoked.calls) = 1
        /\ invoked.result = invoked.engine

\* s is a prefix of t
IsPrefix(s, t) == Len(s) <= Len(t) /\ s = SubSeq(t, 1, Len(s))

\* C16: in one run at most one attach, one start, one wait subscription and
\* one inspect call are issued, in that order, whatever the engine answers;
\* upload_file issues exactly one upload call.
C16_NoRetries ==
    /\ IsPrefix([i \in DOMAIN calls |-> calls[i].op],
                <<"attach_container", "start_container", "wait_container",
                  "inspect_container">>)
    /\ invoked.fn = "upload_file" =>
          /\ Len(invoked.calls) = 1
          /\ invoked.calls[1].op = "upload_to_container"

\* every engine call recorded carries the handle's name, and every attach
\* request the handle's flags and stream = true
CallsCarryHandle ==
    /\ \A i \in DOMAIN calls :
          /\ calls[i].name = name
          /\ calls[i].op = "attach_container" =>
                calls[i].opts = <<attach_stdout, attach_stderr, TRUE>>
    /\ \A i \in DOMAIN invoked.calls : invoked.calls[i].name = name

\* C17: after any sequence of upload_file, run, remove and force_remove the
\* handle's name and flags are unchanged, every engine call carried that
\* name, and every attach request carried stdout = attach_stdout,
\* stderr = attach_stderr and stream = true.
C17_HandleFixed ==
    /\ []CallsCarryHandle
    /\ [][handle' = handle]_vars

C17_Witness ==
    /\ invoked.fn = "force_remove"
    /\ container_state[1] = "exited"
    /\ attach_stdout
    /\ ~attach_stderr

\* C18: once attach and start have succeeded, with the log stream eventually
\* ending or failing and every engine call answering, run eventually
\* returns; and run leaves the collection only when the log stream has ended
\* or failed: while it stays open run neither goes on to wait nor returns.
C18_ReturnsIffStreamEnds ==
    /\ (pc = "started") ~> (pc = "done")
    /\ [][(pc = "collect" /\ pc' # "collect") =>
            stream' \in {"ended", "failed"}]_vars
    /\ []((stream = "open" /\ Count(trace, "started") = 1) =>
            (pc = "collect" /\ result = <<"Pending">>))

C18_Witness ==
    /\ pc = "done"
    /\ Count(trace, "started") = 1
    /\ stream = "ended"
    /\ Len(log) = 2
    /\ result[1] = "Ok"

\* the Output of the second handle's run, from its own log and exit code
PeerExpectedOutput ==
    MakeOutput(PeerExitCode, ConcatTagged(peer_log, "StdOut"),
               ConcatTagged(peer_log, "StdErr"))

====
